---- MODULE Spec2Model ----
(***************************************************************************)
(* Model of the hybrid semantic search core of donor-finder-be:            *)
(*   app/services/embedding_service.py  (EmbeddingService)                 *)
(*   app/services/database_service.py   (DatabaseService)                  *)
(*   app/routers/semantic_search.py     (GET /search/)                     *)
(*   app/models/organization.py         (the organizations table)          *)
(*                                                                         *)
(* Numbers.  Python floats are modelled in fixed point.  A similarity is   *)
(* an integer number of hundredths (0.96 is 96), a fused score an integer  *)
(* number of thousandths (0.8 * 0.96 + 0.3 is 1068).  The float NaN is the *)
(* distinguished value NaN; arithmetic on it yields NaN and every          *)
(* comparison with it is false, as in IEEE 754.                            *)
(*                                                                         *)
(* Vectors.  A list of floats is a record [n, c, e]: the list of length n  *)
(* whose leading components are c[1], c[2], each multiplied by 10^-e, and  *)
(* whose remaining components are 0.  The model's vectors have integer     *)
(* norms (0, 1 or 5), so cosines are exact in hundredths.  Python's None   *)
(* is the value None.                                                      *)
(*                                                                         *)
(* Text.  A str is a sequence of one-character strings.                    *)
(***************************************************************************)
EXTENDS Integers, Sequences, FiniteSets, TLC

VARIABLES
    model,      \* EmbeddingService.model: "None" until _load_model succeeds, then "loaded"
    encoder,    \* the environment: how SentenceTransformer behaves in this process
    store,      \* the organizations table: the sequence of its rows, in physical order
    ret,        \* the last call of the service: its arguments, locals and outcome
    callers,    \* the requests in flight on the event loop: where each one is
    cache,      \* the lru_cache of get_embedding_service: 0 or the cached instance
    services,   \* the EmbeddingService instances constructed so far (their model)
    loads       \* how many times SentenceTransformer(...) was constructed

\* The state of the requests in flight; the specifications of one call at a
\* time leave it alone, their service being the cached one and model its field
conc == <<callers, cache, services, loads>>

vars == <<model, encoder, store, ret, callers, cache, services, loads>>

NoCallers == callers = <<>> /\ cache = 0 /\ services = <<>> /\ loads = 0

(***************************************************************************)
(* Bounds of the model                                                     *)
(***************************************************************************)
MaxTextLen == 2
MaxOrgs == 3
MaxLimit == 2
MaxBatch == 3
MaxCallers == 2

(***************************************************************************)
(* Program constants                                                       *)
(***************************************************************************)
embedding_dimension == 384
similarity_threshold_default == 10
SemanticWeight == 8
KeywordBoost == 300
\* relevance_score=0.7 of keyword mode (app/routers/semantic_search.py)
KeywordModeScore == 700
\* The variant that gives keyword-only entries the 0.7 of keyword mode
KeywordOnlyScoreOfKeywordMode == KeywordModeScore
KeywordOnlyScore == 500
CandidateCap == 1000

(***************************************************************************)
(* Floats                                                                  *)
(***************************************************************************)
NaN == 0 - 1000000
None == [none |-> TRUE]

IsNaN(x) == x = NaN

FAdd(x, y) == IF IsNaN(x) \/ IsNaN(y) THEN NaN ELSE x + y
FMul(x, y) == IF IsNaN(x) \/ IsNaN(y) THEN NaN ELSE x * y
\* x / y as numpy divides float64 scalars: 0/0 is NaN (a warning, no exception)
FDiv(x, y) ==
    IF IsNaN(x) \/ IsNaN(y) \/ y = 0 THEN NaN
    ELSE IF x >= 0 THEN x \div y ELSE 0 - ((0 - x) \div y)
\* x >= y on floats: false when either side is NaN
FGeq(x, y) == ~IsNaN(x) /\ ~IsNaN(y) /\ x >= y

Isqrt(x) == CHOOSE r \in 0..x : r * r <= x /\ (r + 1) * (r + 1) > x

(***************************************************************************)
(* Text                                                                    *)
(***************************************************************************)
Chars == {" ", "a", "b"}

RECURSIVE SeqsUpTo(_, _)
SeqsUpTo(S, n) ==
    IF n = 0 THEN {<<>>}
    ELSE LET shorter == SeqsUpTo(S, n - 1)
         IN  shorter \cup {Append(s, x) : s \in shorter, x \in S}

Texts == SeqsUpTo(Chars, MaxTextLen)

IsSpace(ch) == ch = " "

RECURSIVE lstrip(_)
lstrip(t) == IF t # <<>> /\ IsSpace(Head(t)) THEN lstrip(Tail(t)) ELSE t

RECURSIVE rstrip(_)
rstrip(t) ==
    IF t # <<>> /\ IsSpace(t[Len(t)]) THEN rstrip(SubSeq(t, 1, Len(t) - 1)) ELSE t

\* str.strip()
strip(t) == rstrip(lstrip(t))

\* "not text or not text.strip()"
IsBlank(t) == t = <<>> \/ strip(t) = <<>>

(***************************************************************************)
(* Vectors                                                                 *)
(***************************************************************************)
Vec(n, c, e) == [n |-> n, c |-> c, e |-> e]

\* The variant of the sentinel that is a vector of norm 5
SentinelOfNormFive == Vec(embedding_dimension, <<3, 4>>, 0)

\* [0.0] * self.embedding_dimension
ZeroVector == Vec(embedding_dimension, <<0, 0>>, 0)

IsNone(v) == v = None

Dot(a, b) == FAdd(FMul(a.c[1], b.c[1]), FMul(a.c[2], b.c[2]))

\* np.linalg.norm: the mantissa of the norm, in units of 10^-v.e
Norm(v) ==
    LET sq == Dot(v, v)
    IN  IF IsNaN(sq) THEN NaN ELSE Isqrt(sq)

\* np.isclose(norm, 0.0): |norm - 0| <= atol + rtol * |0| with atol = 1e-8;
\* false for NaN.  m * 10^-e <= 10^-8 is m * 10^8 <= 10^e.
IsCloseToZero(m, e) == ~IsNaN(m) /\ m * 100000000 <= 10 ^ e

\* np.dot of two 1-d arrays raises ValueError unless their lengths agree, and
\* arithmetic on None raises TypeError
DotRaises(a, b) == IsNone(a) \/ IsNone(b) \/ a.n # b.n

\* EmbeddingService.compute_similarity, in hundredths
compute_similarity(embedding1, embedding2) ==
    IF DotRaises(embedding1, embedding2) THEN 0
    ELSE LET dot_product == Dot(embedding1, embedding2)
             norm1 == Norm(embedding1)
             norm2 == Norm(embedding2)
         IN  IF IsCloseToZero(norm1, embedding1.e) \/ IsCloseToZero(norm2, embedding2.e)
             THEN 0
             ELSE FDiv(FMul(dot_product, 100), FMul(norm1, norm2))

(***************************************************************************)
(* Embedding generator                                                     *)
(***************************************************************************)
\* How SentenceTransformer can behave: whether SentenceTransformer(model_name)
\* can be constructed, and what encode does (a vector of the configured
\* dimension, a vector of another length, or an exception).
Encoders ==
    {[loadable |-> TRUE, infer |-> "ok"], [loadable |-> TRUE, infer |-> "wrongdim"],
     [loadable |-> TRUE, infer |-> "raises"], [loadable |-> FALSE, infer |-> "ok"]}

\* The vector a working model gives a stripped, non-blank text: an opaque but
\* deterministic function of the text.
ModelVector(t) ==
    IF t = <<"a">> THEN <<3, 4>>
    ELSE IF t = <<"b">> THEN <<4, 3>>
    ELSE IF Head(t) = "a" THEN <<5, 0>>
    ELSE IF Head(t) = "b" THEN <<0, 5>>
    ELSE <<0 - 4, 3>>

\* self.model.encode(text).tolist() when it does not raise
encode(enc, t) ==
    IF enc.infer = "wrongdim" THEN Vec(2 * embedding_dimension, ModelVector(t), 0)
    ELSE Vec(embedding_dimension, ModelVector(t), 0)

\* An item on which the work inside the try block raises whatever the model:
\* an item that is not a str (text.strip() raises AttributeError) or a text
\* the tokenizer rejects.  It is written as a text holding the character "!".
Unencodable(t) == \E i \in 1..Len(t) : t[i] = "!"

\* Whether self.model.encode raises on the stripped text t
encode_raises(enc, t) == enc.infer = "raises" \/ Unencodable(t)

\* The variant of the test of line 23 that always asks for a load
needs_load_always(m) == TRUE

\* Line 23: if self.model is None
needs_load(m) == m = "None"

\* EmbeddingService._load_model: [raised, model], model being self.model afterwards
load_model(m, enc) ==
    IF needs_load(m)
    THEN IF enc.loadable THEN [raised |-> FALSE, model |-> "loaded"]
         ELSE [raised |-> TRUE, model |-> "None"]
    ELSE [raised |-> FALSE, model |-> m]

\* The variant that loads the model before looking at the text
generate_embedding_load_first(text, m, enc) ==
    LET loaded == load_model(m, enc)
    IN  IF loaded.raised
        THEN [raised |-> TRUE, value |-> None, model |-> loaded.model]
        ELSE IF IsBlank(text) \/ encode_raises(enc, strip(text))
        THEN [raised |-> FALSE, value |-> ZeroVector, model |-> loaded.model]
        ELSE [raised |-> FALSE, value |-> encode(enc, strip(text)),
              model |-> loaded.model]

\* EmbeddingService.generate_embedding: [raised, value, model]
generate_embedding(text, m, enc) ==
    IF IsBlank(text)
    THEN [raised |-> FALSE, value |-> ZeroVector, model |-> m]
    ELSE LET loaded == load_model(m, enc)
         IN  IF loaded.raised
             THEN [raised |-> TRUE, value |-> None, model |-> loaded.model]
             ELSE IF encode_raises(enc, strip(text))
             THEN [raised |-> FALSE, value |-> ZeroVector, model |-> loaded.model]
             ELSE [raised |-> FALSE, value |-> encode(enc, strip(text)),
                   model |-> loaded.model]

\* [[0.0] * self.embedding_dimension] * len(texts)
Zeros(n) == [i \in 1..n |-> ZeroVector]

\* Lines 67-73: the positions of the texts that are not blank, in input order
ValidIndices(texts) ==
    SelectSeq([i \in 1..Len(texts) |-> i], LAMBDA i : ~IsBlank(texts[i]))

\* Lines 70-72 and 79: valid_texts holds the stripped texts; encode gives one
\* vector for each of them, in their order
EncodeAll(enc, texts, valid_indices) ==
    [k \in 1..Len(valid_indices) |-> encode(enc, strip(texts[valid_indices[k]]))]

\* The variant that stores the k-th vector at position k
PlaceByEnumeration(n, valid_indices, embeddings) ==
    [i \in 1..n |-> IF i <= Len(embeddings) THEN embeddings[i] ELSE ZeroVector]

\* Lines 82-89: result starts as zero vectors and the k-th vector is stored at
\* valid_indices[k]
Place(n, valid_indices, embeddings) ==
    [i \in 1..n |->
        IF \E k \in 1..Len(valid_indices) : valid_indices[k] = i
        THEN embeddings[CHOOSE k \in 1..Len(valid_indices) : valid_indices[k] = i]
        ELSE ZeroVector]

\* EmbeddingService.generate_embeddings_batch: [raised, value, model]
generate_embeddings_batch(texts, m, enc) ==
    IF texts = <<>>
    THEN [raised |-> FALSE, value |-> <<>>, model |-> m]
    ELSE LET loaded == load_model(m, enc)
             valid_indices == ValidIndices(texts)
         IN  IF loaded.raised
             THEN [raised |-> TRUE, value |-> <<>>, model |-> loaded.model]
             ELSE IF \E i \in 1..Len(texts) : Unencodable(texts[i])
             THEN [raised |-> FALSE, value |-> Zeros(Len(texts)),
                   model |-> loaded.model]
             ELSE IF valid_indices = <<>>
             THEN [raised |-> FALSE, value |-> Zeros(Len(texts)),
                   model |-> loaded.model]
             ELSE IF enc.infer = "raises"
             THEN [raised |-> FALSE, value |-> Zeros(Len(texts)),
                   model |-> loaded.model]
             ELSE [raised |-> FALSE, model |-> loaded.model,
                   value |-> Place(Len(texts), valid_indices,
                                   EncodeAll(enc, texts, valid_indices))]

(***************************************************************************)
(* The organizations table                                                 *)
(*                                                                         *)
(* A row holds the columns the search reads.  The code tests optional      *)
(* arguments and columns by truthiness only ("if state:", "state or ..."), *)
(* so a None or NULL str is the empty sequence and a None or NULL int is   *)
(* 0; embedding is None (NULL) or a vector.                                *)
(***************************************************************************)
CA == <<"C", "A">>
NY == <<"N", "Y">>

\* NTEEService.build_searchable_text (app/services/ntee_service.py): the name,
\* the label of the cause-area code, the label of the subsection code and the
\* state, those that are not empty, joined by single spaces; "" when all are
\* empty
NteeLabel(ntee_code) ==
    IF ntee_code = "B21" THEN <<"e", "d", "u">>
    ELSE IF ntee_code = "P20" THEN <<"a", "i", "d">>
    ELSE <<>>

SubsectionLabel(subseccd) ==
    IF subseccd = 3 THEN <<"c", "3">>
    ELSE IF subseccd = 4 THEN <<"c", "4">>
    ELSE <<>>

RECURSIVE JoinWords(_)
JoinWords(parts) ==
    IF parts = <<>> THEN <<>>
    ELSE IF Head(parts) = <<>> THEN JoinWords(Tail(parts))
    ELSE LET rest == JoinWords(Tail(parts))
         IN  IF rest = <<>> THEN Head(parts) ELSE Head(parts) \o <<" ">> \o rest

build_searchable_text(org) ==
    JoinWords(<<org.name, NteeLabel(org.ntee_code), SubsectionLabel(org.subseccd),
                org.state>>)

\* A row with an embedding holds the text built from its columns; a row
\* without one was stored before the columns existed and holds no text
Row(ein, name, state, subseccd, ntee_code, embedding) ==
    [ein |-> ein, name |-> name, state |-> state, subseccd |-> subseccd,
     ntee_code |-> ntee_code,
     searchable_text |->
         IF embedding = None THEN <<>>
         ELSE build_searchable_text([name |-> name, state |-> state,
                                     subseccd |-> subseccd, ntee_code |-> ntee_code]),
     embedding |-> embedding]

\* The rows a table is drawn from
Catalog ==
    { Row(1, <<"A", "b">>, CA, 3, "B21", Vec(embedding_dimension, <<3, 4>>, 0)),
      Row(2, <<"b", "b">>, NY, 3, "P20", Vec(embedding_dimension, <<0 - 3, 4>>, 0)),
      Row(3, <<"a">>, CA, 0, "", None),
      Row(4, <<"b", "a">>, CA, 4, "B21", Vec(embedding_dimension, <<5, 0>>, 0)) }

\* ein is a unique column
UniqueEin(t) == \A i, j \in 1..Len(t) : t[i].ein = t[j].ein => i = j

Tables == {t \in SeqsUpTo(Catalog, MaxOrgs) : UniqueEin(t)}

\* s[:n] for n >= 0, and SQL LIMIT n
Take(s, n) == SubSeq(s, 1, IF n < Len(s) THEN n ELSE Len(s))

Lower(ch) ==
    CASE ch = "A" -> "a" [] ch = "B" -> "b" [] ch = "C" -> "c"
      [] ch = "N" -> "n" [] ch = "Y" -> "y" [] OTHER -> ch

Upper(ch) ==
    CASE ch = "a" -> "A" [] ch = "b" -> "B" [] ch = "c" -> "C"
      [] ch = "n" -> "N" [] ch = "y" -> "Y" [] OTHER -> ch

\* str.upper()
upper(t) == [i \in 1..Len(t) |-> Upper(t[i])]

\* SQL "s ILIKE p": % matches any run of characters, _ any one character,
\* every other character itself, case-insensitively
RECURSIVE ILike(_, _)
ILike(s, p) ==
    IF p = <<>> THEN s = <<>>
    ELSE IF Head(p) = "%"
         THEN ILike(s, Tail(p)) \/ (s # <<>> /\ ILike(Tail(s), p))
    ELSE IF s = <<>> THEN FALSE
    ELSE (Head(p) = "_" \/ Lower(Head(p)) = Lower(Head(s))) /\ ILike(Tail(s), Tail(p))

\* An instance loaded by one query: the same row loaded by two queries makes
\* two objects
Loaded(row, by) == [ein |-> row.ein, row |-> row, by |-> by]

\* DatabaseService.search_organizations
search_organizations(t, query, state, subseccd, limit) ==
    LET Match(r) ==
            /\ (query # <<>> => ILike(r.name, <<"%">> \o query \o <<"%">>))
            /\ (state # <<>> => r.state = state)
            /\ (subseccd # 0 => r.subseccd = subseccd)
        rows == Take(SelectSeq(t, Match), limit)
    IN  [i \in 1..Len(rows) |-> Loaded(rows[i], "keyword")]

(***************************************************************************)
(* Semantic ranking                                                        *)
(***************************************************************************)
\* list.sort(key=..., reverse=True) on (key, item) pairs: descending by key,
\* items of equal key left in their order
RECURSIVE SortPairsDesc(_)
SortPairsDesc(s) ==
    IF s = <<>> THEN <<>>
    ELSE LET n == Len(s)
             front == SortPairsDesc(SubSeq(s, 1, n - 1))
             x == s[n]
             keep == {i \in 1..Len(front) : front[i].key >= x.key}
             k == IF keep = {} THEN 0 ELSE CHOOSE i \in keep : \A j \in keep : j <= i
         IN  SubSeq(front, 1, k) \o <<x>> \o SubSeq(front, k + 1, Len(front))

SimilarityOf(r) == r.similarity

\* results.sort(key=lambda x: x[1], reverse=True) on (org, similarity) pairs
SortBySimilarity(s) ==
    LET sorted == SortPairsDesc([i \in 1..Len(s) |->
                                    [key |-> SimilarityOf(s[i]), item |-> s[i]]])
    IN  [i \in 1..Len(sorted) |-> sorted[i].item]

\* The variant of the query without .limit(1000)
CandidatesUncapped(t, state, subseccd, ntee_codes) ==
    LET Match(r) ==
            /\ ~IsNone(r.embedding)
            /\ (state # <<>> => r.state = upper(state))
            /\ (subseccd # 0 => r.subseccd = subseccd)
            /\ (ntee_codes # {} => r.ntee_code \in ntee_codes)
    IN  SelectSeq(t, Match)

\* The query of lines 134-147: rows with an embedding that pass the filters,
\* at most CandidateCap of them
Candidates(t, state, subseccd, ntee_codes) ==
    LET Match(r) ==
            /\ ~IsNone(r.embedding)
            /\ (state # <<>> => r.state = upper(state))
            /\ (subseccd # 0 => r.subseccd = subseccd)
            /\ (ntee_codes # {} => r.ntee_code \in ntee_codes)
    IN  Take(SelectSeq(t, Match), CandidateCap)

\* The loop of lines 153-160
Scored(candidates, query_embedding, similarity_threshold) ==
    LET pairs == [i \in 1..Len(candidates) |->
                     [org |-> Loaded(candidates[i], "semantic"),
                      similarity |-> compute_similarity(query_embedding,
                                                        candidates[i].embedding)]]
        Kept(p) == /\ ~IsNone(p.org.row.embedding)
                   /\ FGeq(p.similarity, similarity_threshold)
    IN  SelectSeq(pairs, Kept)

\* The variant without either test for a missing embedding
RankedNullable(t, query_embedding, state, subseccd, ntee_codes, limit, similarity_threshold) ==
    LET Match(r) ==
            /\ (state # <<>> => r.state = upper(state))
            /\ (subseccd # 0 => r.subseccd = subseccd)
            /\ (ntee_codes # {} => r.ntee_code \in ntee_codes)
        Hit(r) == FGeq(compute_similarity(query_embedding, r.embedding),
                       similarity_threshold)
        hits == SelectSeq(Take(SelectSeq(t, Match), CandidateCap), Hit)
        results == [i \in 1..Len(hits) |->
                       [org |-> Loaded(hits[i], "semantic"),
                        similarity |-> compute_similarity(query_embedding,
                                                          hits[i].embedding)]]
    IN  Take(SortBySimilarity(results), limit)

\* The variant that does not sort
RankedUnsorted(t, query_embedding, state, subseccd, ntee_codes, limit, similarity_threshold) ==
    Take(Scored(Candidates(t, state, subseccd, ntee_codes), query_embedding,
                similarity_threshold), limit)

\* Lines 133-164 of semantic_search_organizations: the ranking for a query
\* embedding
Ranked(t, query_embedding, state, subseccd, ntee_codes, limit, similarity_threshold) ==
    LET candidates == Candidates(t, state, subseccd, ntee_codes)
        results == Scored(candidates, query_embedding, similarity_threshold)
    IN  Take(SortBySimilarity(results), limit)

\* DatabaseService.semantic_search_organizations: [raised, value, model]
semantic_search_organizations(t, query, state, subseccd, ntee_codes, limit, similarity_threshold, m, enc) ==
    LET emb == generate_embedding(query, m, enc)
    IN  IF emb.raised
        THEN [raised |-> TRUE, value |-> <<>>, model |-> emb.model, scored |-> 0]
        ELSE [raised |-> FALSE,
              value |-> Ranked(t, emb.value, state, subseccd, ntee_codes, limit,
                               similarity_threshold),
              model |-> emb.model,
              scored |-> Len(Candidates(t, state, subseccd, ntee_codes))]

(***************************************************************************)
(* Taxonomy matcher (app/services/ntee_service.py)                         *)
(***************************************************************************)
\* The closed geographic vocabulary: (pattern, value) pairs, in order
GeoVocabulary ==
    << [pattern |-> <<"c", "a">>, value |-> CA],
       [pattern |-> <<"n", "y">>, value |-> NY] >>

\* extract_query_components(query)["geographic"]: the values whose pattern
\* the query contains, case-insensitively, in vocabulary order
geographic(query) ==
    LET Mentioned(g) == ILike(query, <<"%">> \o g.pattern \o <<"%">>)
        found == SelectSeq(GeoVocabulary, Mentioned)
    IN  [i \in 1..Len(found) |-> found[i].value]

(***************************************************************************)
(* Hybrid fusion                                                           *)
(***************************************************************************)
\* combined_results is a dict keyed by ein: here the sequence of its
\* (key, value) items in insertion order
HasKey(d, k) == \E i \in 1..Len(d) : d[i].key = k
Get(d, k) == d[CHOOSE i \in 1..Len(d) : d[i].key = k].val
\* The variant keyed by the loaded object instead of its ein
PutByObject(d, k, v) == Append(d, [key |-> k, val |-> v])

Put(d, k, v) ==
    IF HasKey(d, k)
    THEN [i \in 1..Len(d) |-> IF d[i].key = k THEN [key |-> k, val |-> v] ELSE d[i]]
    ELSE Append(d, [key |-> k, val |-> v])

Values(d) == [i \in 1..Len(d) |-> d[i].val]

Entry(org, score, match_type) ==
    [org |-> org, score |-> score, match_type |-> match_type]

\* The variant that leaves the raw similarity unweighted
SemanticEntryUnweighted(org, similarity) == Entry(org, similarity * 10, "semantic")

\* Line 209: (org, similarity * 0.8, "semantic"), the score in thousandths
SemanticEntry(org, similarity) == Entry(org, similarity * SemanticWeight, "semantic")

\* The variant that overwrites the score instead of adding the bonus
BoostedEntryReplaced(existing) == Entry(existing.org, KeywordOnlyScore, "hybrid")

\* Line 220: (existing_org, existing_score + 0.3, "hybrid")
BoostedEntry(existing) == Entry(existing.org, existing.score + KeywordBoost, "hybrid")

\* Line 227: (org, 0.5, "keyword")
KeywordEntry(org) == Entry(org, KeywordOnlyScore, "keyword")

\* The loop of lines 208-213
RECURSIVE AddSemantic(_, _)
AddSemantic(d, semantic_results) ==
    IF semantic_results = <<>> THEN d
    ELSE LET r == Head(semantic_results)
         IN  AddSemantic(Put(d, r.org.ein, SemanticEntry(r.org, r.similarity)),
                         Tail(semantic_results))

\* The loop of lines 216-227
RECURSIVE AddKeyword(_, _)
AddKeyword(d, keyword_results) ==
    IF keyword_results = <<>> THEN d
    ELSE LET org == Head(keyword_results)
             next == IF HasKey(d, org.ein)
                     THEN Put(d, org.ein, BoostedEntry(Get(d, org.ein)))
                     ELSE Put(d, org.ein, KeywordEntry(org))
         IN  AddKeyword(next, Tail(keyword_results))

ScoreOf(x) == x.score

\* final_results.sort(key=lambda x: x[1], reverse=True) on fused entries
SortByScore(s) ==
    LET sorted == SortPairsDesc([i \in 1..Len(s) |->
                                    [key |-> ScoreOf(s[i]), item |-> s[i]]])
    IN  [i \in 1..Len(sorted) |-> sorted[i].item]

\* The variant that truncates before sorting
FinalResultsCutFirst(combined, limit) == SortByScore(Take(combined, limit))

\* Lines 230-233: sort by fused score, descending, and keep the first limit
FinalResults(combined, limit) == Take(SortByScore(combined), limit)

\* The variant in which a geographic match of the query comes first
state_or_geographic_match(state, geo) ==
    IF geo # <<>> THEN geo[1] ELSE state

\* Lines 183 and 197: state or (geographic[0] if geographic else None)
state_or_geographic(state, geo) ==
    IF state # <<>> THEN state
    ELSE IF geo # <<>> THEN geo[1] ELSE <<>>

\* DatabaseService.hybrid_search_organizations:
\* [raised, value, model] and the locals the fusion works on
hybrid_search_organizations(t, query, state, subseccd, limit, m, enc) ==
    LET geo == geographic(query)
        semantic_state == state_or_geographic(state, geo)
        keyword_state == state_or_geographic(state, geo)
        sem == semantic_search_organizations(t, query, semantic_state, subseccd, {},
                                             limit, similarity_threshold_default, m, enc)
        keyword_results == search_organizations(t, query, keyword_state, subseccd, limit)
        combined == Values(AddKeyword(AddSemantic(<<>>, sem.value), keyword_results))
    IN  IF sem.raised
        THEN [raised |-> TRUE, value |-> <<>>, model |-> sem.model,
              semantic_state |-> semantic_state, keyword_state |-> keyword_state,
              semantic_results |-> <<>>, keyword_results |-> <<>>, combined |-> <<>>]
        ELSE [raised |-> FALSE, value |-> FinalResults(combined, limit),
              model |-> sem.model,
              semantic_state |-> semantic_state, keyword_state |-> keyword_state,
              semantic_results |-> sem.value,
              keyword_results |-> keyword_results, combined |-> combined]

(***************************************************************************)
(* Writing embeddings (database_service.py lines 24-58 and 235-324)         *)
(*                                                                         *)
(* Each operation works on the rows of its session and commits at the end. *)
(* An operation gives [raised, value, model, store]: store is the table     *)
(* after the commit, or the table as it was when nothing was committed.     *)
(***************************************************************************)
\* The variant of a column that takes a vector of any length
StorableAny(v) == TRUE

\* embedding = Column(Vector(384)): NULL or a vector of 384 components; the
\* column type refuses a vector of another length when the row is flushed
Storable(v) == v = None \/ v.n = embedding_dimension

\* self.db.commit() succeeds
Flushable(t) == \A i \in 1..Len(t) : Storable(t[i].embedding)

\* The position of the row of an ein, 0 when there is none
IndexOfEin(t, ein) ==
    IF \E i \in 1..Len(t) : t[i].ein = ein
    THEN CHOOSE i \in 1..Len(t) : t[i].ein = ein
    ELSE 0

\* The variant that leaves the columns of the row as they are
SetAttrsNothing(row, org_data) == row

\* org_data.dict(exclude_unset=True) laid over the columns of a row
SetAttrs(row, org_data) ==
    [row EXCEPT
        !.name = IF "name" \in org_data.unset THEN @ ELSE org_data.name,
        !.state = IF "state" \in org_data.unset THEN @ ELSE org_data.state,
        !.subseccd = IF "subseccd" \in org_data.unset THEN @ ELSE org_data.subseccd,
        !.ntee_code = IF "ntee_code" \in org_data.unset THEN @ ELSE org_data.ntee_code]

\* Organization(**org_dict_with_embedding)
NewRow(org_data, searchable_text, embedding) ==
    [ein |-> org_data.ein, name |-> org_data.name, state |-> org_data.state,
     subseccd |-> org_data.subseccd, ntee_code |-> org_data.ntee_code,
     searchable_text |-> searchable_text, embedding |-> embedding]

\* DatabaseService.create_organization
create_organization(t, org_data, m, enc) ==
    LET k == IndexOfEin(t, org_data.ein)
        searchable_text == build_searchable_text(org_data)
        e == generate_embedding(searchable_text, m, enc)
        row == IF k # 0
               THEN [SetAttrs(t[k], org_data) EXCEPT
                        !.searchable_text = searchable_text, !.embedding = e.value]
               ELSE NewRow(org_data, searchable_text, e.value)
        written == IF k # 0 THEN [t EXCEPT ![k] = row] ELSE Append(t, row)
    IN  IF e.raised \/ ~Flushable(written)
        THEN [raised |-> TRUE, value |-> None, model |-> e.model, store |-> t]
        ELSE [raised |-> FALSE, value |-> row, model |-> e.model, store |-> written]

\* DatabaseService.update_organization_embedding: value is the bool returned
update_organization_embedding(t, ein, m, enc) ==
    LET k == IndexOfEin(t, ein)
        searchable_text == build_searchable_text(t[k])
        e == generate_embedding(searchable_text, m, enc)
        written == [t EXCEPT ![k] = [@ EXCEPT !.searchable_text = searchable_text,
                                               !.embedding = e.value]]
    IN  IF k = 0
        THEN [raised |-> FALSE, value |-> FALSE, model |-> m, store |-> t]
        ELSE IF e.raised \/ ~Flushable(written)
        THEN [raised |-> FALSE, value |-> FALSE, model |-> e.model, store |-> t]
        ELSE [raised |-> FALSE, value |-> TRUE, model |-> e.model, store |-> written]

\* The variant of the query without .limit(limit)
WithoutEmbeddingsUnlimited(t, limit) ==
    SelectSeq([i \in 1..Len(t) |-> i], LAMBDA i : t[i].embedding = None)

\* DatabaseService.get_organizations_without_embeddings: positions of the rows
WithoutEmbeddings(t, limit) ==
    Take(SelectSeq([i \in 1..Len(t) |-> i], LAMBDA i : t[i].embedding = None), limit)

\* Lines 305-315: the rows of the batch with their text and embedding assigned
AssignAll(t, selected, org_texts, embeddings) ==
    [i \in 1..Len(t) |->
        IF \E k \in 1..Len(selected) : selected[k] = i
        THEN LET k == CHOOSE k \in 1..Len(selected) : selected[k] = i
             IN  [t[i] EXCEPT !.searchable_text = org_texts[k],
                              !.embedding = embeddings[k]]
        ELSE t[i]]

\* DatabaseService.batch_update_embeddings: value is stats; selected holds the
\* eins of orgs_without_embeddings
batch_update_embeddings(t, batch_size, m, enc) ==
    LET selected == WithoutEmbeddings(t, batch_size)
        n == Len(selected)
        eins == [k \in 1..n |-> t[selected[k]].ein]
        org_texts == [k \in 1..n |-> build_searchable_text(t[selected[k]])]
        b == generate_embeddings_batch(org_texts, m, enc)
        written == AssignAll(t, selected, org_texts, b.value)
    IN  IF n = 0
        THEN [raised |-> FALSE, value |-> [updated |-> 0, errors |-> 0],
              selected |-> eins, model |-> m, store |-> t]
        ELSE IF b.raised
        THEN [raised |-> FALSE, value |-> [updated |-> 0, errors |-> n],
              selected |-> eins, model |-> b.model, store |-> t]
        ELSE IF ~Flushable(written)
        THEN [raised |-> FALSE, value |-> [updated |-> n, errors |-> n],
              selected |-> eins, model |-> b.model, store |-> t]
        ELSE [raised |-> FALSE, value |-> [updated |-> n, errors |-> 0],
              selected |-> eins, model |-> b.model, store |-> written]

(***************************************************************************)
(* The search endpoint (app/routers/semantic_search.py, GET /search/)       *)
(*                                                                         *)
(* relevance_score is in thousandths, as the fused score.  A response is    *)
(* the SearchResponse (status 200) or the HTTPException of line 112        *)
(* (status 500, detail starting with "Search failed").                     *)
(***************************************************************************)
SearchTypes == {"semantic", "keyword", "hybrid"}

\* OrganizationSearchResult(**org.__dict__, relevance_score=..., match_type=...)
SearchResult(org, relevance_score, match_type) ==
    [row |-> org.row, relevance_score |-> relevance_score, match_type |-> match_type]

\* Lines 68-73, 81-88 and 96-101: the conversion loops of the three modes
SemanticResults(results) ==
    [i \in 1..Len(results) |->
        SearchResult(results[i].org, FMul(results[i].similarity, 10), "semantic")]

KeywordResults(orgs) ==
    [i \in 1..Len(orgs) |-> SearchResult(orgs[i], KeywordModeScore, "keyword")]

HybridResults(results) ==
    [i \in 1..Len(results) |->
        SearchResult(results[i].org, results[i].score, results[i].match_type)]

\* The variant that answers with what it has whatever was raised
respond_anyway(error, results) ==
    [status |-> 200, detail |-> "", results |-> results, total_results |-> Len(results)]

\* Lines 61, 103-112: the SearchResponse, or the HTTPException when anything
\* inside the try raised
respond(error, results) ==
    IF error # "none"
    THEN [status |-> 500, detail |-> "Search failed", results |-> <<>>,
          total_results |-> 0]
    ELSE [status |-> 200, detail |-> "", results |-> results,
          total_results |-> Len(results)]

\* What is raised inside the try: the embedding of the query comes first in
\* the semantic and hybrid modes (database_service.py line 129), the query on
\* the table after it; db_ok tells whether the database answers
raised_in_search(embedding_raised, db_ok) ==
    IF embedding_raised THEN "embedding" ELSE IF ~db_ok THEN "store" ELSE "none"

\* semantic_search_organizations of the router: [error, response, model]
search_endpoint(t, q, state, subseccd, search_type, limit, m, enc, db_ok) ==
    IF search_type = "semantic"
    THEN LET r == semantic_search_organizations(t, q, state, subseccd, {}, limit,
                                                similarity_threshold_default, m, enc)
             error == raised_in_search(r.raised, db_ok)
         IN  [error |-> error, model |-> r.model,
              response |-> respond(error, SemanticResults(r.value))]
    ELSE IF search_type = "keyword"
    THEN LET orgs == search_organizations(t, q, state, subseccd, limit)
             error == raised_in_search(FALSE, db_ok)
         IN  [error |-> error, model |-> m,
              response |-> respond(error, KeywordResults(orgs))]
    ELSE LET r == hybrid_search_organizations(t, q, state, subseccd, limit, m, enc)
             error == raised_in_search(r.raised, db_ok)
         IN  [error |-> error, model |-> r.model,
              response |-> respond(error, HybridResults(r.value))]

(***************************************************************************)
(* The service as a state machine: one call at a time, each call an action *)
(* that records its arguments and outcome in ret, then Return              *)
(***************************************************************************)
Idle == [op |-> "idle"]

Queries == {<<>>, <<" ">>, <<"a">>, <<"b">>, <<"a", "b">>, <<"c", "a">>}

Filter(state, subseccd, ntee_codes) ==
    [state |-> state, subseccd |-> subseccd, ntee_codes |-> ntee_codes]

\* (state, subseccd) arguments of the keyword and hybrid searches
Filters ==
    {Filter(<<>>, 0, {}), Filter(CA, 0, {}), Filter(<<"c", "a">>, 0, {}),
     Filter(NY, 0, {}), Filter(<<>>, 3, {})}

\* (state, subseccd, ntee_codes) arguments of the semantic search
SemanticFilters == Filters \cup {Filter(<<>>, 0, {"B21"})}

Thresholds == {0, similarity_threshold_default}

Limits == 0..MaxLimit

Init ==
    /\ model = "None"
    /\ encoder \in Encoders
    /\ store \in Tables
    /\ ret = Idle
    /\ NoCallers

GenerateEmbedding(text) ==
    /\ ret = Idle
    /\ LET r == generate_embedding(text, model, encoder)
       IN  /\ model' = r.model
           /\ ret' = [op |-> "generate_embedding", text |-> text,
                      raised |-> r.raised, value |-> r.value]
    /\ UNCHANGED <<encoder, store, conc>>

SemanticSearch(query, f, limit, similarity_threshold) ==
    /\ ret = Idle
    /\ LET r == semantic_search_organizations(store, query, f.state, f.subseccd,
                                              f.ntee_codes, limit,
                                              similarity_threshold, model, encoder)
       IN  /\ model' = r.model
           /\ ret' = [op |-> "semantic_search_organizations", query |-> query,
                      filter |-> f, limit |-> limit,
                      similarity_threshold |-> similarity_threshold,
                      raised |-> r.raised, value |-> r.value, scored |-> r.scored]
    /\ UNCHANGED <<encoder, store, conc>>

KeywordSearch(query, f, limit) ==
    /\ ret = Idle
    /\ ret' = [op |-> "search_organizations", query |-> query, filter |-> f,
               limit |-> limit, raised |-> FALSE,
               value |-> search_organizations(store, query, f.state, f.subseccd, limit)]
    /\ UNCHANGED <<model, encoder, store, conc>>

HybridSearch(query, f, limit) ==
    /\ ret = Idle
    /\ LET r == hybrid_search_organizations(store, query, f.state, f.subseccd, limit,
                                            model, encoder)
       IN  /\ model' = r.model
           /\ ret' = [op |-> "hybrid_search_organizations", query |-> query,
                      filter |-> f, limit |-> limit, raised |-> r.raised,
                      semantic_state |-> r.semantic_state,
                      keyword_state |-> r.keyword_state,
                      semantic_results |-> r.semantic_results,
                      keyword_results |-> r.keyword_results,
                      combined |-> r.combined, value |-> r.value]
    /\ UNCHANGED <<encoder, store, conc>>

Return ==
    /\ ret # Idle
    /\ ret' = Idle
    /\ UNCHANGED <<model, encoder, store, conc>>

Next ==
    \/ \E text \in Texts : GenerateEmbedding(text)
    \/ \E query \in Queries, f \in SemanticFilters, limit \in Limits,
          similarity_threshold \in Thresholds :
            SemanticSearch(query, f, limit, similarity_threshold)
    \/ \E query \in Queries, f \in Filters, limit \in Limits :
            KeywordSearch(query, f, limit)
    \/ \E query \in Queries, f \in Filters, limit \in Limits :
            HybridSearch(query, f, limit)
    \/ Return

Spec == Init /\ [][Next]_vars

(***************************************************************************)
(* The similarity function on its own: every pair of a small set of        *)
(* well-formed and malformed vectors                                       *)
(***************************************************************************)
SimVectors ==
    { ZeroVector,
      Vec(embedding_dimension, <<3, 4>>, 0),
      Vec(embedding_dimension, <<4, 3>>, 0),
      Vec(embedding_dimension, <<0 - 3, 0 - 4>>, 0),
      Vec(embedding_dimension, <<1, 0>>, 0),
      Vec(embedding_dimension, <<0, 1>>, 0),
      Vec(embedding_dimension, <<3, 4>>, 9),
      Vec(embedding_dimension, <<4, 3>>, 8),
      Vec(embedding_dimension - 1, <<3, 4>>, 0),
      Vec(embedding_dimension, <<NaN, 1>>, 0),
      None }

ComputeSimilarity(embedding1, embedding2) ==
    /\ ret = Idle
    /\ ret' = [op |-> "compute_similarity", embedding1 |-> embedding1,
               embedding2 |-> embedding2,
               value |-> compute_similarity(embedding1, embedding2)]
    /\ UNCHANGED <<model, encoder, store, conc>>

SimInit ==
    /\ model = "None"
    /\ encoder = [loadable |-> TRUE, infer |-> "ok"]
    /\ store = <<>>
    /\ ret = Idle
    /\ NoCallers

SimNext ==
    \/ \E embedding1 \in SimVectors, embedding2 \in SimVectors :
            ComputeSimilarity(embedding1, embedding2)
    \/ Return

SimSpec == SimInit /\ [][SimNext]_vars

(***************************************************************************)
(* Batch embedding on its own: every list of at most MaxBatch texts, blank, *)
(* plain or unencodable, with every behaviour of the model                 *)
(***************************************************************************)
BatchTexts == {<<>>, <<" ">>, <<"a">>, <<"b">>, <<" ", "b">>, <<"!">>}

GenerateEmbeddingsBatch(texts) ==
    /\ ret = Idle
    /\ LET r == generate_embeddings_batch(texts, model, encoder)
       IN  /\ model' = r.model
           /\ ret' = [op |-> "generate_embeddings_batch", texts |-> texts,
                      raised |-> r.raised, value |-> r.value]
    /\ UNCHANGED <<encoder, store, conc>>

BatchInit ==
    /\ model = "None"
    /\ encoder \in Encoders
    /\ store = <<>>
    /\ ret = Idle
    /\ NoCallers

BatchNext ==
    \/ \E texts \in SeqsUpTo(BatchTexts, MaxBatch) : GenerateEmbeddingsBatch(texts)
    \/ Return

BatchSpec == BatchInit /\ [][BatchNext]_vars

(***************************************************************************)
(* The search endpoint on its own: every mode, with queries that hold the   *)
(* wildcard characters of LIKE, and a database that may fail                *)
(***************************************************************************)
RouterQueries == {<<>>, <<"a">>, <<"b">>, <<"_">>, <<"%">>, <<"c", "a">>}

RouterFilters == {Filter(<<>>, 0, {}), Filter(CA, 0, {}), Filter(<<>>, 3, {})}

\* The variant that writes back the text of every row while it searches
SearchAndRefresh(q, f, search_type, limit, db_ok) ==
    /\ ret = Idle
    /\ LET r == search_endpoint(store, q, f.state, f.subseccd, search_type, limit,
                                model, encoder, db_ok)
       IN  /\ model' = r.model
           /\ ret' = [op |-> "search", q |-> q, filter |-> f,
                      search_type |-> search_type, limit |-> limit,
                      error |-> r.error, response |-> r.response]
    /\ store' = [i \in 1..Len(store) |->
                    [store[i] EXCEPT !.searchable_text = build_searchable_text(store[i])]]
    /\ UNCHANGED <<encoder, conc>>

Search(q, f, search_type, limit, db_ok) ==
    /\ ret = Idle
    /\ LET r == search_endpoint(store, q, f.state, f.subseccd, search_type, limit,
                                model, encoder, db_ok)
       IN  /\ model' = r.model
           /\ ret' = [op |-> "search", q |-> q, filter |-> f,
                      search_type |-> search_type, limit |-> limit,
                      error |-> r.error, response |-> r.response]
    /\ UNCHANGED <<encoder, store, conc>>

RouterNext ==
    \/ \E q \in RouterQueries, f \in RouterFilters, search_type \in SearchTypes,
          limit \in Limits, db_ok \in BOOLEAN :
            Search(q, f, search_type, limit, db_ok)
    \/ Return

RouterSpec == Init /\ [][RouterNext]_vars

(***************************************************************************)
(* The table under the writing operations, with searches in between.  It    *)
(* starts with rows stored before the embedding columns existed.            *)
(***************************************************************************)
LegacyRows ==
    << Row(1, <<"a">>, <<>>, 0, "", None),
       Row(2, <<"!">>, <<>>, 0, "", None),
       Row(3, <<"b">>, CA, 0, "", None),
       Row(4, <<>>, <<>>, 0, "", None) >>

\* The tables of at most MaxOrgs of these rows, in the order of their ein
LegacyTables ==
    {SelectSeq(LegacyRows, LAMBDA r : r.ein \in S) :
        S \in {S \in SUBSET {1, 2, 3, 4} : Cardinality(S) <= MaxOrgs}}

OrgData(ein, name, unset) ==
    [ein |-> ein, name |-> name, state |-> <<>>, subseccd |-> 0, ntee_code |-> "",
     unset |-> unset]

\* What create_organization is called with: an ein of the table, a new one,
\* and an ein of the table in a request that does not set the name
OrgDatas ==
    {OrgData(1, <<"b">>, {}), OrgData(5, <<"a">>, {}), OrgData(1, <<>>, {"name"})}

Eins == {1, 2, 5}

BatchSizes == 1..MaxOrgs

StoreQueries == {<<"a">>, <<"%">>}

StoreFilters == {Filter(<<>>, 0, {}), Filter(CA, 0, {})}

CreateOrganization(org_data) ==
    /\ ret = Idle
    /\ LET r == create_organization(store, org_data, model, encoder)
       IN  /\ model' = r.model
           /\ store' = r.store
           /\ ret' = [op |-> "create_organization", org_data |-> org_data,
                      raised |-> r.raised, value |-> r.value]
    /\ UNCHANGED <<encoder, conc>>

UpdateOrganizationEmbedding(ein) ==
    /\ ret = Idle
    /\ LET r == update_organization_embedding(store, ein, model, encoder)
       IN  /\ model' = r.model
           /\ store' = r.store
           /\ ret' = [op |-> "update_organization_embedding", ein |-> ein,
                      raised |-> r.raised, value |-> r.value]
    /\ UNCHANGED <<encoder, conc>>

BatchUpdateEmbeddings(batch_size) ==
    /\ ret = Idle
    /\ LET r == batch_update_embeddings(store, batch_size, model, encoder)
       IN  /\ model' = r.model
           /\ store' = r.store
           /\ ret' = [op |-> "batch_update_embeddings", batch_size |-> batch_size,
                      raised |-> r.raised, value |-> r.value,
                      selected |-> r.selected, before |-> store]
    /\ UNCHANGED <<encoder, conc>>

StoreInit ==
    /\ model = "None"
    /\ encoder \in Encoders
    /\ store \in LegacyTables
    /\ ret = Idle
    /\ NoCallers

StoreNext ==
    \/ \E org_data \in OrgDatas : CreateOrganization(org_data)
    \/ \E ein \in Eins : UpdateOrganizationEmbedding(ein)
    \/ \E batch_size \in BatchSizes : BatchUpdateEmbeddings(batch_size)
    \/ \E q \in StoreQueries, f \in StoreFilters, search_type \in SearchTypes :
            Search(q, f, search_type, MaxLimit, TRUE)
    \/ Return

StoreSpec == StoreInit /\ [][StoreNext]_vars

(***************************************************************************)
(* A client that repeats POST /update-embeddings.  The endpoint is a         *)
(* coroutine without an await (routers/semantic_search.py 165-189): each     *)
(* request runs to its response once the event loop starts it, and the       *)
(* client sends the next request after the response.                        *)
(***************************************************************************)
RefreshNext ==
    \/ \E batch_size \in BatchSizes : BatchUpdateEmbeddings(batch_size)
    \/ Return

\* Weak fairness of the refresh call, WF_vars(\E batch_size \in BatchSizes :
\* BatchUpdateEmbeddings(batch_size)), with its ENABLED written out: the call
\* is enabled exactly when ret = Idle, and each of its steps changes ret
RefreshRepeats ==
    \/ []<>(ret # Idle)
    \/ []<><<\E batch_size \in BatchSizes : BatchUpdateEmbeddings(batch_size)>>_vars

RefreshSpec ==
    /\ StoreInit
    /\ [][RefreshNext]_vars
    /\ RefreshRepeats
    /\ WF_vars(Return)

(***************************************************************************)
(* Semantic search over tables of about CandidateCap rows.  Row 1 and the   *)
(* last row are close to the query "a", row 2 has no embedding, the other   *)
(* rows point away from every query; states, subsection codes and          *)
(* cause-area codes alternate.                                              *)
(***************************************************************************)
BigRow(i, n) ==
    Row(i, <<"b">>,
        IF i % 2 = 1 THEN CA ELSE NY,
        IF i % 3 = 0 THEN 4 ELSE 3,
        IF i % 5 = 0 THEN "P20" ELSE "B21",
        IF i = 2 THEN None
        ELSE IF i = 1 \/ i = n THEN Vec(embedding_dimension, <<3, 4>>, 0)
        ELSE Vec(embedding_dimension, <<0 - 5, 0 - 12>>, 0))

BigTable(n) == [i \in 1..n |-> BigRow(i, n)]

BigTables == {BigTable(n) : n \in CandidateCap..(CandidateCap + MaxOrgs)}

CapQueries == {<<>>, <<"a">>, <<"b">>}

CapInit ==
    /\ model = "None"
    /\ encoder \in {enc \in Encoders : enc.infer = "ok"}
    /\ store \in BigTables
    /\ ret = Idle
    /\ NoCallers

CapNext ==
    \/ \E query \in CapQueries, f \in SemanticFilters, limit \in Limits :
            SemanticSearch(query, f, limit, similarity_threshold_default)
    \/ Return

CapSpec == CapInit /\ [][CapNext]_vars

(***************************************************************************)
(* Hybrid search over tables whose stored vectors lie at small angles to    *)
(* the vector of the query "a", <<3, 4>>: cosine 13/85 for row 1 and 7/25   *)
(* for row 3.  Row 2 matches the keyword and has no embedding; row 4 does    *)
(* not match the keyword.                                                   *)
(***************************************************************************)
FusionCatalog ==
    { Row(1, <<"a">>, CA, 3, "B21", Vec(embedding_dimension, <<15, 0 - 8>>, 0)),
      Row(2, <<"a", "b">>, CA, 3, "B21", None),
      Row(3, <<"b", "a">>, NY, 3, "P20", Vec(embedding_dimension, <<0 - 3, 4>>, 0)),
      Row(4, <<"b">>, CA, 4, "B21", Vec(embedding_dimension, <<4, 3>>, 0)) }

FusionTables == {t \in SeqsUpTo(FusionCatalog, MaxOrgs) : UniqueEin(t)}

FusionQueries == {<<"a">>, <<"b">>}

FusionFilters == {Filter(<<>>, 0, {}), Filter(CA, 0, {})}

FusionInit ==
    /\ model = "None"
    /\ encoder \in Encoders
    /\ store \in FusionTables
    /\ ret = Idle
    /\ NoCallers

FusionNext ==
    \/ \E query \in FusionQueries, f \in FusionFilters, limit \in Limits :
            HybridSearch(query, f, limit)
    \/ Return

FusionSpec == FusionInit /\ [][FusionNext]_vars

(***************************************************************************)
(* Requests in flight.  Every endpoint is a coroutine (async def) and the   *)
(* program starts no thread, so the requests of one process run on one      *)
(* event loop and change hands only at an await.  A request constructs its  *)
(* DatabaseService, which calls get_embedding_service (database_service.py  *)
(* line 22); it may then await (routers/sync.py line 23) before it embeds.  *)
(* get_embedding_service, generate_embedding and generate_embeddings_batch  *)
(* hold no await: each is one step.                                        *)
(***************************************************************************)
NewService == [model |-> "None"]

\* @lru_cache(maxsize=1) get_embedding_service(): the cached instance, or a new
\* one that is cached; [service, cache, services]
get_embedding_service(c, svcs) ==
    IF c = 0
    THEN [service |-> Len(svcs) + 1, cache |-> Len(svcs) + 1,
          services |-> Append(svcs, NewService)]
    ELSE [service |-> c, cache |-> c, services |-> svcs]

\* Line 26 runs, and succeeds, in a call that reaches _load_model
Constructs(m, enc) == needs_load(m) /\ enc.loadable

ConcTexts == {<<" ">>, <<"a">>, <<"b">>}
ConcBatches == {<<>>, << <<"a">> >>, << <<" ">>, <<"b">> >>}

\* DatabaseService.__init__, line 22
Construct(c) ==
    /\ callers[c].pc = "new"
    /\ LET r == get_embedding_service(cache, services)
       IN  /\ cache' = r.cache
           /\ services' = r.services
           /\ callers' = [callers EXCEPT ![c] =
                  [pc |-> "constructed", service |-> r.service,
                   first |-> r.services[r.service].model = "None"]]
    /\ UNCHANGED <<model, encoder, store, ret, loads>>

\* self.embedding_service.generate_embedding(text) of a request
Embed(c, text) ==
    /\ callers[c].pc = "constructed"
    /\ LET i == callers[c].service
           r == generate_embedding(text, services[i].model, encoder)
       IN  /\ services' = [services EXCEPT ![i] = [model |-> r.model]]
           /\ loads' = IF ~IsBlank(text) /\ Constructs(services[i].model, encoder)
                       THEN loads + 1 ELSE loads
           /\ callers' = [callers EXCEPT ![c] =
                  [pc |-> "done", service |-> i, first |-> callers[c].first,
                   raised |-> r.raised, value |-> <<r.value>>]]
    /\ UNCHANGED <<model, encoder, store, ret, cache>>

\* self.embedding_service.generate_embeddings_batch(texts) of a request
EmbedBatch(c, texts) ==
    /\ callers[c].pc = "constructed"
    /\ LET i == callers[c].service
           r == generate_embeddings_batch(texts, services[i].model, encoder)
       IN  /\ services' = [services EXCEPT ![i] = [model |-> r.model]]
           /\ loads' = IF texts # <<>> /\ Constructs(services[i].model, encoder)
                       THEN loads + 1 ELSE loads
           /\ callers' = [callers EXCEPT ![c] =
                  [pc |-> "done", service |-> i, first |-> callers[c].first,
                   raised |-> r.raised, value |-> r.value]]
    /\ UNCHANGED <<model, encoder, store, ret, cache>>

ConcInit ==
    /\ model = "None"
    /\ encoder \in Encoders
    /\ store = <<>>
    /\ ret = Idle
    /\ callers = [c \in 1..MaxCallers |-> [pc |-> "new", service |-> 0]]
    /\ cache = 0
    /\ services = <<>>
    /\ loads = 0

ConcNext ==
    \E c \in 1..MaxCallers :
        \/ Construct(c)
        \/ \E text \in ConcTexts : Embed(c, text)
        \/ \E texts \in ConcBatches : EmbedBatch(c, texts)

ConcSpec == ConcInit /\ [][ConcNext]_vars

(***************************************************************************)
(* Properties                                                              *)
(***************************************************************************)
Hybrid == ret.op = "hybrid_search_organizations" /\ ~ret.raised
Semantic == ret.op = "semantic_search_organizations" /\ ~ret.raised
Embedded == ret.op = "generate_embedding"

InSemantic(ein) ==
    \E i \in 1..Len(ret.semantic_results) : ret.semantic_results[i].org.ein = ein
InKeyword(ein) ==
    \E i \in 1..Len(ret.keyword_results) : ret.keyword_results[i].ein = ein
RawScore(ein) ==
    ret.semantic_results[CHOOSE i \in 1..Len(ret.semantic_results) :
                             ret.semantic_results[i].org.ein = ein].similarity

\* C1: a candidate in both the semantic ranking (raw score s) and the keyword
\* list leaves the fusion with score s * 0.8 + 0.3 and tag "hybrid"
C1_BothGetBoost ==
    Hybrid =>
        \A i \in 1..Len(ret.combined) :
            LET x == ret.combined[i]
            IN  (InSemantic(x.org.ein) /\ InKeyword(x.org.ein)) =>
                    /\ x.score = RawScore(x.org.ein) * 8 + 300
                    /\ x.match_type = "hybrid"
                    /\ \A j \in 1..Len(ret.value) :
                           ret.value[j].org.ein = x.org.ein => ret.value[j] = x

\* C1 witness: a hybrid entry for raw score 0.96 is returned with 1.068
C1_Witness ==
    /\ Hybrid
    /\ \E j \in 1..Len(ret.value) :
           /\ ret.value[j].match_type = "hybrid"
           /\ InSemantic(ret.value[j].org.ein) /\ InKeyword(ret.value[j].org.ein)
           /\ RawScore(ret.value[j].org.ein) = 96
           /\ ret.value[j].score = 1068

\* C2: a candidate in exactly one input ranking keeps that ranking's base score
\* and tag: s * 0.8 and "semantic", or 0.5 and "keyword"
C2_SingleSourceBase ==
    Hybrid =>
        \A i \in 1..Len(ret.combined) :
            LET x == ret.combined[i]
                here == \A j \in 1..Len(ret.value) :
                            ret.value[j].org.ein = x.org.ein => ret.value[j] = x
            IN  /\ (InSemantic(x.org.ein) /\ ~InKeyword(x.org.ein)) =>
                        /\ x.score = RawScore(x.org.ein) * 8
                        /\ x.match_type = "semantic"
                        /\ here
                /\ (InKeyword(x.org.ein) /\ ~InSemantic(x.org.ein)) =>
                        /\ x.score = 500
                        /\ x.match_type = "keyword"
                        /\ here

\* C2 witness: one output holds a semantic-only and a keyword-only entry
C2_Witness ==
    /\ Hybrid
    /\ \E i, j \in 1..Len(ret.value) :
           /\ ret.value[i].match_type = "semantic" /\ ret.value[i].score = 224
           /\ ~InKeyword(ret.value[i].org.ein)
           /\ ret.value[j].match_type = "keyword" /\ ret.value[j].score = 500
           /\ ~InSemantic(ret.value[j].org.ein)

\* C3: the fusion output holds at most one entry per ein
C3_OneEntryPerEin ==
    Hybrid =>
        /\ \A i, j \in 1..Len(ret.value) :
               ret.value[i].org.ein = ret.value[j].org.ein => i = j
        /\ \A i, j \in 1..Len(ret.combined) :
               ret.combined[i].org.ein = ret.combined[j].org.ein => i = j

\* C3 witness: an ein loaded by both queries, as two objects, is returned
C3_Witness ==
    /\ Hybrid
    /\ Len(ret.value) = 2
    /\ \E i \in 1..Len(ret.semantic_results), k \in 1..Len(ret.keyword_results) :
           /\ ret.semantic_results[i].org.ein = ret.keyword_results[k].ein
           /\ ret.semantic_results[i].org # ret.keyword_results[k]
           /\ \E j \in 1..Len(ret.value) :
                  ret.value[j].org.ein = ret.keyword_results[k].ein

Dropped(x) == \A j \in 1..Len(ret.value) : ret.value[j].org.ein # x.org.ein

\* C4: the fusion output is in non-increasing order of fused score, has at
\* most limit entries, and no dropped candidate outscores a kept one
C4_SortedAndCut ==
    Hybrid =>
        /\ \A i, j \in 1..Len(ret.value) :
               i < j => ret.value[i].score >= ret.value[j].score
        /\ Len(ret.value) <= ret.limit
        /\ \A i \in 1..Len(ret.value) :
               \E k \in 1..Len(ret.combined) : ret.combined[k] = ret.value[i]
        /\ Len(ret.combined) > ret.limit =>
               \A k \in 1..Len(ret.combined), j \in 1..Len(ret.value) :
                   Dropped(ret.combined[k]) =>
                       ret.combined[k].score <= ret.value[j].score

\* C4 witness: more candidates than limit were fused, and one of lower score
\* than every kept entry was dropped
C4_Witness ==
    /\ Hybrid
    /\ Len(ret.combined) > ret.limit
    /\ Len(ret.value) = 2
    /\ ret.value[1].score > ret.value[2].score
    /\ \E k \in 1..Len(ret.combined) :
           Dropped(ret.combined[k]) /\ ret.combined[k].score < ret.value[2].score

Position(ein) == CHOOSE i \in 1..Len(store) : store[i].ein = ein

HasEmbedding(r) == r.embedding # None

\* C6: an organization without an embedding is not in the semantic ranking,
\* is given no score, and does not change the call's outcome: the call ends
\* as it does on the table without the organizations that lack an embedding
C6_NullEmbeddingExcluded ==
    ret.op = "semantic_search_organizations" =>
        LET without == semantic_search_organizations(
                           SelectSeq(store, HasEmbedding), ret.query,
                           ret.filter.state, ret.filter.subseccd,
                           ret.filter.ntee_codes, ret.limit,
                           ret.similarity_threshold, model, encoder)
        IN  /\ \A i \in 1..Len(ret.value) : ret.value[i].org.row.embedding # None
            /\ ret.raised = without.raised
            /\ ret.value = without.value

\* C6 witness: a ranking with threshold 0 over a table holding an organization
\* that lacks an embedding and passes the filters
C6_Witness ==
    /\ Semantic
    /\ ret.similarity_threshold = 0
    /\ ret.limit = 2
    /\ Len(ret.value) = 1
    /\ \E i \in 1..Len(store) :
           /\ store[i].embedding = None
           /\ ret.filter.state # <<>> /\ store[i].state = upper(ret.filter.state)

ZeroNorm(v) == v # None /\ v.c[1] # NaN /\ v.c[2] # NaN /\
               (v.c = <<0, 0>> \/ (v.e >= 9 /\ v.c[1] * v.c[1] + v.c[2] * v.c[2] <= 100))
Malformed(a, b) == a = None \/ b = None \/ a.n # b.n

\* C7: similarity is exactly 0 when either vector has zero or near-zero norm,
\* 0 when the vectors are malformed, and never NaN
C7_SimilarityZeroNeverNaN ==
    ret.op = "compute_similarity" =>
        /\ (Malformed(ret.embedding1, ret.embedding2) => ret.value = 0)
        /\ (~Malformed(ret.embedding1, ret.embedding2)
              /\ (ZeroNorm(ret.embedding1) \/ ZeroNorm(ret.embedding2)) => ret.value = 0)
        /\ ret.value # NaN

\* C8: generate_embedding returns a vector of exactly 384 components
C8_EmbeddingHasDimension ==
    (Embedded /\ ~ret.raised) => ret.value.n = 384

AllSpaces(t) == \A i \in 1..Len(t) : t[i] = " "

\* C9: generate_embedding returns the all-zero vector of 384 components for
\* every empty or whitespace-only text, whatever the state of the model
C9_BlankGivesZeroVector ==
    (Embedded /\ AllSpaces(ret.text)) =>
        /\ ~ret.raised
        /\ ret.value = [n |-> 384, c |-> <<0, 0>>, e |-> 0]

\* C9 witness: a whitespace-only text embedded while the model is not loaded
\* and cannot be loaded
C9_Witness ==
    /\ Embedded
    /\ ret.text = <<" ", " ">>
    /\ ~encoder.loadable
    /\ model = "None"
    /\ ret.value = [n |-> 384, c |-> <<0, 0>>, e |-> 0]

\* C10: when the model cannot be loaded, or inference raises, generate_embedding
\* of a non-empty text raises nothing and returns the all-zero vector
C10_FailureGivesZeroVector ==
    (Embedded /\ ~AllSpaces(ret.text)
       /\ (~encoder.loadable \/ encoder.infer = "raises")) =>
        /\ ~ret.raised
        /\ ret.value = [n |-> 384, c |-> <<0, 0>>, e |-> 0]

Batch == ret.op = "generate_embeddings_batch"
Working == encoder.loadable /\ encoder.infer # "raises"
Bad(t) == \E i \in 1..Len(t) : t[i] = "!"

\* The vector of the model for a text, at the length the model gives
VectorOf(t) ==
    [n |-> IF encoder.infer = "wrongdim" THEN 768 ELSE 384,
     c |-> ModelVector(strip(t)), e |-> 0]

\* C11: with a model that loads and encodes, generate_embeddings_batch returns
\* one vector for each input, in input order: the all-zero vector at the
\* positions of the empty and whitespace-only texts, and at every other
\* position the vector of the model for the text at that position
C11_BatchKeepsInputOrder ==
    (Batch /\ Working /\ \A i \in 1..Len(ret.texts) : ~Bad(ret.texts[i])) =>
        /\ ~ret.raised
        /\ Len(ret.value) = Len(ret.texts)
        /\ \A i \in 1..Len(ret.texts) :
               IF AllSpaces(ret.texts[i])
               THEN ret.value[i] = [n |-> 384, c |-> <<0, 0>>, e |-> 0]
               ELSE ret.value[i] = VectorOf(ret.texts[i])

\* C11 witness: a batch that starts with a blank text and holds two different
\* texts after it; each of the two gets its own vector
C11_Witness ==
    /\ Batch
    /\ encoder = [loadable |-> TRUE, infer |-> "ok"]
    /\ ret.texts = << <<" ">>, <<"b">>, <<"a">> >>
    /\ ret.value = << [n |-> 384, c |-> <<0, 0>>, e |-> 0],
                      [n |-> 384, c |-> <<4, 3>>, e |-> 0],
                      [n |-> 384, c |-> <<3, 4>>, e |-> 0] >>

\* C12: when exactly one item of a batch cannot be encoded, the call raises
\* nothing and every other non-blank item still gets the vector of the model
C12_OneBadItemSparesTheOthers ==
    (Batch /\ Working
       /\ Cardinality({i \in 1..Len(ret.texts) : Bad(ret.texts[i])}) = 1) =>
        /\ ~ret.raised
        /\ Len(ret.value) = Len(ret.texts)
        /\ \A i \in 1..Len(ret.texts) :
               (~Bad(ret.texts[i]) /\ ~AllSpaces(ret.texts[i])) =>
                   ret.value[i] = VectorOf(ret.texts[i])

\* C13: whatever the order in which the requests in flight take their steps,
\* SentenceTransformer is constructed at most once, one EmbeddingService
\* exists, and every request that called get_embedding_service holds it
C13_LoadedOnceOneInstance ==
    /\ loads <= 1
    /\ Len(services) <= 1
    /\ \A c, d \in DOMAIN callers :
           (callers[c].pc # "new" /\ callers[d].pc # "new") =>
               callers[c].service = callers[d].service

\* C13 witness: two requests obtained the service before the model was loaded,
\* then each embedded a non-blank text; the model was constructed once
C13_Witness ==
    /\ Len(callers) >= 2
    /\ \A c \in {1, 2} : callers[c].pc = "done" /\ callers[c].first
    /\ callers[1].value = <<[n |-> 384, c |-> <<3, 4>>, e |-> 0]>>
    /\ callers[2].value = <<[n |-> 384, c |-> <<4, 3>>, e |-> 0]>>
    /\ callers[1].service = callers[2].service
    /\ loads = 1

\* The state named first in the query, <<>> when it names none
FirstState(query) == IF geographic(query) = <<>> THEN <<>> ELSE geographic(query)[1]

\* C14: in a hybrid search both sub-searches are given the state filter of the
\* caller when there is one, otherwise the first geographic match of the
\* query, otherwise none; the rows they return are rows of that state
C14_ExplicitStateFirst ==
    Hybrid =>
        LET expected == IF ret.filter.state # <<>> THEN ret.filter.state
                        ELSE FirstState(ret.query)
        IN  /\ ret.semantic_state = expected
            /\ ret.keyword_state = expected
            /\ \A i \in 1..Len(ret.semantic_results) :
                   expected # <<>> =>
                       ret.semantic_results[i].org.row.state = upper(expected)
            /\ \A i \in 1..Len(ret.keyword_results) :
                   expected # <<>> => ret.keyword_results[i].row.state = expected

\* C14 witness: the query names CA, the caller asks for NY, and the search
\* returns a NY row
C14_Witness ==
    /\ Hybrid
    /\ ret.query = <<"c", "a">>
    /\ ret.filter.state = <<"N", "Y">>
    /\ ret.semantic_state = <<"N", "Y">>
    /\ ret.keyword_state = <<"N", "Y">>
    /\ Len(ret.value) > 0
    /\ \A i \in 1..Len(ret.value) : ret.value[i].org.row.state = <<"N", "Y">>

Searched == ret.op = "search"

\* name contains q, letters compared without case
Contains(name, q) ==
    \E i \in 0..Len(name) :
        /\ i + Len(q) <= Len(name)
        /\ \A j \in 1..Len(q) : Lower(name[i + j]) = Lower(q[j])

\* C15: every result of a keyword search has relevance score 0.7 and tag
\* keyword, is an organization whose name contains the query as a substring
\* (case apart) and which has the state and the subsection code asked for;
\* there are at most limit results
C15_KeywordResults ==
    (Searched /\ ret.search_type = "keyword" /\ ret.response.status = 200) =>
        /\ Len(ret.response.results) <= ret.limit
        /\ \A i \in 1..Len(ret.response.results) :
               LET x == ret.response.results[i]
               IN  /\ x.relevance_score = 700
                   /\ x.match_type = "keyword"
                   /\ Contains(x.row.name, ret.q)
                   /\ (ret.filter.state # <<>> => x.row.state = ret.filter.state)
                   /\ (ret.filter.subseccd # 0 => x.row.subseccd = ret.filter.subseccd)

C19_StoredEmbeddingHasDimension ==
    \A i \in 1..Len(store) :
        store[i].embedding = [none |-> TRUE] \/ store[i].embedding.n = 384

\* C19 witness: the model gives vectors of another length, create_organization
\* was called for a new ein and the table did not take the row
C19_Witness ==
    /\ ret.op = "create_organization"
    /\ encoder.infer = "wrongdim"
    /\ ret.org_data.ein = 5
    /\ ret.raised
    /\ \A i \in 1..Len(store) : store[i].ein # 5
    /\ \E i \in 1..Len(store) : store[i].embedding # [none |-> TRUE]

WriteOps ==
    {"create_organization", "update_organization_embedding", "batch_update_embeddings"}

\* C17: a search in any mode leaves every row of the table as it was, and
\* the table changes only in create_organization,
\* update_organization_embedding and batch_update_embeddings
C17_SearchLeavesStore ==
    [][/\ ret'.op = "search" => store' = store
       /\ store' # store => ret'.op \in WriteOps]_vars

\* C17 witness: a search that returns a row whose text and embedding were
\* written by an earlier call, next to a row that still has neither
C17_Witness ==
    /\ Searched
    /\ Len(ret.response.results) > 0
    /\ \E i \in 1..Len(store) :
           store[i].embedding # [none |-> TRUE] /\ store[i].searchable_text # <<>>
    /\ \E i \in 1..Len(store) :
           store[i].embedding = [none |-> TRUE] /\ store[i].searchable_text = <<>>

Refreshed == ret.op = "batch_update_embeddings"

\* The rows the batch selected, as they were before and as they are after
Before(ein) == ret.before[CHOOSE i \in 1..Len(ret.before) : ret.before[i].ein = ein]
After(ein) == store[CHOOSE i \in 1..Len(store) : store[i].ein = ein]
Selected == {ret.selected[k] : k \in 1..Len(ret.selected)}

\* C18: when the text of exactly one of the n organizations of a batch cannot
\* be encoded, batch_update_embeddings raises nothing, returns updated = n - 1
\* and errors = 1, and the other n - 1 rows hold their text and the vector of
\* the model for it
C18_PerItemCounts ==
    (Refreshed /\ encoder = [loadable |-> TRUE, infer |-> "ok"]
       /\ Cardinality({ein \in Selected : Bad(Before(ein).name)}) = 1) =>
        /\ ~ret.raised
        /\ ret.value = [updated |-> Cardinality(Selected) - 1, errors |-> 1]
        /\ \A ein \in Selected :
               (~Bad(Before(ein).name) /\ Before(ein).name # <<>>) =>
                   /\ After(ein).searchable_text # <<>>
                   /\ After(ein).embedding = VectorOf(After(ein).searchable_text)

\* C20: every organization a semantic search returns has an embedding, has
\* the state asked for (letters compared without case), the subsection code
\* asked for and one of the cause-area codes asked for; the search scores at
\* most 1000 organizations
C20_FilteredAndCapped ==
    Semantic =>
        /\ ret.scored <= 1000
        /\ \A i \in 1..Len(ret.value) :
               LET row == ret.value[i].org.row
               IN  /\ row.embedding # [none |-> TRUE]
                   /\ (ret.filter.state # <<>> =>
                          upper(row.state) = upper(ret.filter.state))
                   /\ (ret.filter.subseccd # 0 => row.subseccd = ret.filter.subseccd)
                   /\ (ret.filter.ntee_codes # {} =>
                          row.ntee_code \in ret.filter.ntee_codes)

\* C20 witness: 1002 rows have an embedding and pass the filter (there is
\* none); 1000 are scored, and the last row, as close to the query as the
\* first, is not returned
C20_Witness ==
    /\ Semantic
    /\ Len(store) = 1003
    /\ ret.filter = [state |-> <<>>, subseccd |-> 0, ntee_codes |-> {}]
    /\ ret.query = <<"a">>
    /\ ret.limit = 2
    /\ ret.scored = 1000
    /\ Len(ret.value) = 1
    /\ ret.value[1].org.row.ein = 1

\* C21: a semantic search whose query is empty or holds only whitespace
\* returns no result when the threshold is positive, whatever the table holds
C21_BlankQueryFindsNothing ==
    (Semantic /\ AllSpaces(ret.query) /\ ret.similarity_threshold > 0) =>
        ret.value = <<>>

\* C21 witness: a whitespace-only query at the default threshold, no filter
\* and a positive limit, over a table with three embedded rows
C21_Witness ==
    /\ Semantic
    /\ ret.query = <<" ">>
    /\ ret.similarity_threshold = 10
    /\ ret.filter = [state |-> <<>>, subseccd |-> 0, ntee_codes |-> {}]
    /\ ret.limit = 2
    /\ Cardinality({i \in 1..Len(store) : store[i].embedding # [none |-> TRUE]}) = 3
    /\ ret.value = <<>>

Created == ret.op = "create_organization" /\ ~ret.raised

\* C22: the table holds at most one row for an ein; a create_organization
\* that returns for an ein of the table changes that row (the columns the
\* request sets, the text and the embedding) and adds none, and one that
\* returns for a new ein adds one row
C22_OneRowPerEin ==
    [][/\ UniqueEin(store) /\ UniqueEin(store')
       /\ (ret'.op = "create_organization" /\ ~ret'.raised) =>
              LET org_data == ret'.org_data
                  here == {i \in 1..Len(store) : store[i].ein = org_data.ein}
              IN  IF here # {}
                  THEN /\ Len(store') = Len(store)
                       /\ \A i \in 1..Len(store) :
                              IF i \in here
                              THEN /\ store'[i] = ret'.value
                                   /\ store'[i].ein = org_data.ein
                                   /\ ("name" \notin org_data.unset =>
                                          store'[i].name = org_data.name)
                                   /\ store'[i].embedding # [none |-> TRUE]
                              ELSE store'[i] = store[i]
                  ELSE /\ store' = Append(store, ret'.value)
                       /\ ret'.value.ein = org_data.ein]_vars

\* C22 witness: create_organization returned for ein 1, which the table held
\* under the name "a"; the table holds one row of ein 1, now named "b", next
\* to another row
C22_Witness ==
    /\ Created
    /\ ret.org_data.ein = 1
    /\ Len(store) >= 2
    /\ Cardinality({i \in 1..Len(store) : store[i].ein = 1}) = 1
    /\ \E i \in 1..Len(store) :
           store[i].ein = 1 /\ store[i].name = <<"b">> /\ store[i] = ret.value

\* The text of a row as its columns give it
TextOf(row) == build_searchable_text(row)

\* C23: update_organization_embedding raises nothing; it returns False when
\* no row has the ein, when the embedding of the text of the row cannot be
\* generated (the model cannot be loaded, or encode raises on the text), and
\* when the commit is refused, and then every row is as it was; it returns
\* True only when the text and the embedding of the row were written
C23_UpdateNeverRaises ==
    [][ret'.op = "update_organization_embedding" =>
          LET here == {i \in 1..Len(store) : store[i].ein = ret'.ein}
          IN  /\ ~ret'.raised
              /\ ret'.value \in BOOLEAN
              /\ here = {} => ret'.value = FALSE
              /\ \A i \in here :
                     (~AllSpaces(TextOf(store[i])) /\ model = "None"
                        /\ ~encoder.loadable) => ret'.value = FALSE
              /\ \A i \in here :
                     (~AllSpaces(TextOf(store[i])) /\ encoder.loadable
                        /\ encode_raises(encoder, strip(TextOf(store[i])))) =>
                            ret'.value = FALSE
              /\ \A i \in here :
                     (~AllSpaces(TextOf(store[i])) /\ ~Bad(TextOf(store[i]))
                        /\ encoder.loadable /\ encoder.infer = "wrongdim") =>
                            ret'.value = FALSE
              /\ ret'.value = FALSE => store' = store
              /\ ret'.value = TRUE =>
                     /\ Len(store') = Len(store)
                     /\ \A i \in 1..Len(store) :
                            IF i \in here
                            THEN /\ store'[i].searchable_text = TextOf(store[i])
                                 /\ store'[i].embedding # [none |-> TRUE]
                            ELSE store'[i] = store[i]]_vars

C25_CountsAddUp ==
    Refreshed =>
        /\ Len(ret.selected) <= ret.batch_size
        /\ ret.value.updated + ret.value.errors = Len(ret.selected)
        /\ ret.value.updated =
              Cardinality({ein \in Selected : After(ein).embedding # [none |-> TRUE]})

\* C26: after a batch_update_embeddings in which encode raised, a selected
\* row with a text that is not blank has no embedding, in particular not
\* the zero vector, updated is 0, and the row is among those the query for
\* rows without embedding gives next
C26_FailedRowsStayAbsent ==
    (Refreshed /\ encoder.loadable /\ encoder.infer = "raises") =>
        \A ein \in Selected :
            ~AllSpaces(TextOf(Before(ein))) =>
                /\ After(ein).embedding = [none |-> TRUE]
                /\ After(ein).embedding # ZeroVector
                /\ ret.value.updated = 0
                /\ \E k \in 1..Len(WithoutEmbeddings(store, MaxOrgs)) :
                       store[WithoutEmbeddings(store, MaxOrgs)[k]].ein = ein

\* The entries of the fusion output with a tag
Tagged(match_type) ==
    {ret.value[i] : i \in {j \in 1..Len(ret.value) : ret.value[j].match_type = match_type}}

\* C27 as stated: in the output of the fusion a "hybrid" entry whose raw
\* semantic score is at least 0.1 has a score at least that of every
\* "keyword" entry
C27_HybridAboveKeyword ==
    Hybrid =>
        \A x \in Tagged("hybrid"), y \in Tagged("keyword") :
            RawScore(x.org.ein) >= similarity_threshold_default => x.score >= y.score

\* C27 amended: in the output of the fusion a "hybrid" entry whose raw
\* semantic score is at least 0.25 has a score at least that of every
\* "keyword" entry
C27_HybridAboveKeywordFromQuarter ==
    Hybrid =>
        \A x \in Tagged("hybrid"), y \in Tagged("keyword") :
            RawScore(x.org.ein) >= 25 => x.score >= y.score

\* C27 witness: the output holds a "hybrid" entry of raw score 0.28, fused
\* to 0.524, and a "keyword" entry of score 0.5 after it
C27_Witness ==
    /\ Hybrid
    /\ Len(ret.value) = 2
    /\ ret.value[1].match_type = "hybrid"
    /\ RawScore(ret.value[1].org.ein) = 28
    /\ ret.value[1].score = 524
    /\ ret.value[2].match_type = "keyword"
    /\ ret.value[2].score = 500

\* C28: in a hybrid search a row with an embedding passes the state filter
\* of the semantic query exactly when it passes the state filter of the
\* keyword query, whatever the state the request or the query gives
C28_SameStateFilter ==
    Hybrid =>
        \A i \in 1..Len(store) :
            ~IsNone(store[i].embedding) =>
                ((Candidates(<<store[i]>>, ret.semantic_state, 0, {}) # <<>>)
                   <=> (search_organizations(<<store[i]>>, <<>>, ret.keyword_state,
                                             0, 1) # <<>>))

\* C29: when create_organization returns for an ein the table already held,
\* the searchable_text of the row is the text built from the columns of the
\* row and its embedding is the embedding of that text
C29_ExistingRowTextFromStoredFields ==
    [][(/\ ret'.op = "create_organization"
        /\ ~ret'.raised
        /\ \E i \in 1..Len(store) : store[i].ein = ret'.org_data.ein) =>
            \A i \in 1..Len(store') :
                store'[i].ein = ret'.org_data.ein =>
                    /\ store'[i].searchable_text = build_searchable_text(store'[i])
                    /\ store'[i].embedding =
                          generate_embedding(build_searchable_text(store'[i]),
                                             model', encoder).value]_vars

\* The number of rows of a table without embedding
Missing(t) == Cardinality({i \in 1..Len(t) : t[i].embedding = [none |-> TRUE]})

Min(a, b) == IF a < b THEN a ELSE b

\* The model loads and encodes, and the column accepts its vectors
NothingFails == encoder.loadable /\ encoder.infer = "ok"

\* C30: when nothing fails, every batch_update_embeddings lowers the number
\* of rows without embedding by min(batch_size, that number), and with no
\* such row it returns updated 0 and errors 0; under repeated calls the
\* table reaches, and keeps, the state in which no row lacks an embedding
C30_RefreshTerminates ==
    /\ [][(ret'.op = "batch_update_embeddings" /\ NothingFails) =>
             /\ Missing(store') = Missing(store) - Min(ret'.batch_size, Missing(store))
             /\ (Missing(store) > 0 => Missing(store') < Missing(store))
             /\ (Missing(store) = 0 =>
                    ret'.value = [updated |-> 0, errors |-> 0])]_vars
    /\ (NothingFails => <>[](Missing(store) = 0))

\* C30 witness: with a model that works, a call with batch_size 2 on a table
\* with three rows without embedding left one, and reported two updated
C30_Witness ==
    /\ Refreshed
    /\ NothingFails
    /\ ret.batch_size = 2
    /\ Missing(ret.before) = 3
    /\ Missing(store) = 1
    /\ ret.value = [updated |-> 2, errors |-> 0]

====
